---- MODULE Spec2Model ----
(***************************************************************************)
(* The unified-diff parser of great-review (src-tauri/src/diff_parser.rs)  *)
(* as a state machine over a line cursor.  A string is a sequence of       *)
(* one-character strings, so that prefix tests, searches and number        *)
(* decoding are computed character by character as the Rust code does.     *)
(* An Option<T> is a sequence of length 0 (None) or 1 (Some).  A u32 is a  *)
(* pair <<hi, lo>> of 16-bit limbs, so that 4294967295 and the overflow of *)
(* a counter are represented exactly.  run_git_diff, which produces the    *)
(* text, is a second state machine over the commands it runs and their     *)
(* outcomes.                                                               *)
(***************************************************************************)
EXTENDS Integers, Sequences, FiniteSets, TLC

VARIABLES
    lines,            \* diff_text.lines().collect(): the input, line by line
    overflow_checks,  \* the build: TRUE panics on u32 overflow, FALSE wraps
    i,                \* the line cursor (0-based, as in the code)
    pc,               \* "scan" | "meta" | "hunk" | "done" | "panicked", and
                      \* "idle" while get_diff has not called the parser
    files,            \* Vec<DiffFile> built so far
    file,             \* the DiffFile in progress: path, old_path, status, hunks
    hunk,             \* the DiffHunk in progress, with its running counters
    git,              \* run_git_diff: arguments, commands invoked, their
                      \* outcomes, the position in the function, the result
    cmd               \* get_diff: arguments, the functions called, what the
                      \* source returned, the position, the result

vars == <<lines, overflow_checks, i, pc, files, file, hunk, git, cmd>>

-----------------------------------------------------------------------------
(* Bounds of the model *)

MaxLen == 4

MaxBody == 3

-----------------------------------------------------------------------------
(* String literals of the program *)

PfxDiffGit ==
    <<"d", "i", "f", "f", " ", "-", "-", "g", "i", "t", " ">>

SepB ==
    <<" ", "b", "/">>

PfxNewFileMode ==
    <<"n", "e", "w", " ", "f", "i", "l", "e", " ", "m", "o", "d", "e">>

PfxDeletedFileMode ==
    <<"d", "e", "l", "e", "t", "e", "d", " ", "f", "i", "l", "e", " ", "m", "o", "d", "e">>

PfxRenameFrom ==
    <<"r", "e", "n", "a", "m", "e", " ", "f", "r", "o", "m", " ">>

PfxRenameTo ==
    <<"r", "e", "n", "a", "m", "e", " ", "t", "o", " ">>

PfxBinaryFiles ==
    <<"B", "i", "n", "a", "r", "y", " ", "f", "i", "l", "e", "s">>

PfxOldFile ==
    <<"-", "-", "-", " ">>

PfxNewFile ==
    <<"+", "+", "+", " ">>

PfxHunk ==
    <<"@", "@", " ">>

HunkClose ==
    <<" ", "@", "@">>

NoNewlineMarker ==
    <<"\\", " ", "N", "o", " ", "n", "e", "w", "l", "i", "n", "e", " ", "a", "t", " ",
      "e", "n", "d", " ", "o", "f", " ", "f", "i", "l", "e">>

-----------------------------------------------------------------------------
(* Option<T> *)

None == <<>>

Some(x) == <<x>>

IsSome(o) == Len(o) = 1

-----------------------------------------------------------------------------
(* str operations of the Rust standard library, as the parser uses them *)

\* str::starts_with
StartsWith(s, p) ==
    /\ Len(s) >= Len(p)
    /\ SubSeq(s, 1, Len(p)) = p

\* str::strip_prefix: Some(rest) when s starts with p
StripPrefix(s, p) ==
    IF StartsWith(s, p) THEN Some(SubSeq(s, Len(p) + 1, Len(s))) ELSE None

\* the 0-based byte offsets at which p occurs in s
Occurrences(s, p) ==
    {k \in 0..(Len(s) - Len(p)) : SubSeq(s, k + 1, k + Len(p)) = p}

\* str::find: the first occurrence
Find(s, p) ==
    LET occ == Occurrences(s, p)
    IN  IF occ = {} THEN None
        ELSE Some(CHOOSE k \in occ : \A m \in occ : k <= m)

\* str::rfind: the last occurrence
RFind(s, p) ==
    LET occ == Occurrences(s, p)
    IN  IF occ = {} THEN None
        ELSE Some(CHOOSE k \in occ : \A m \in occ : k >= m)

\* char::is_whitespace, over the characters the model's inputs use
IsWhitespace(c) == c \in {" ", "\t"}

\* str::split_whitespace: the maximal runs of non-whitespace, in order
RECURSIVE SplitWhitespaceFrom(_, _, _, _)
SplitWhitespaceFrom(s, k, cur, acc) ==
    IF k > Len(s)
    THEN IF cur = <<>> THEN acc ELSE Append(acc, cur)
    ELSE IF IsWhitespace(s[k])
         THEN SplitWhitespaceFrom(s, k + 1, <<>>,
                                  IF cur = <<>> THEN acc ELSE Append(acc, cur))
         ELSE SplitWhitespaceFrom(s, k + 1, Append(cur, s[k]), acc)

SplitWhitespace(s) == SplitWhitespaceFrom(s, 1, <<>>, <<>>)

\* str::split_once(','): Some(<<before, after>>) at the first comma
SplitOnceComma(s) ==
    LET at == Find(s, <<",">>)
    IN  IF at = None THEN None
        ELSE Some(<<SubSeq(s, 1, at[1]), SubSeq(s, at[1] + 2, Len(s))>>)

-----------------------------------------------------------------------------
(* u32: <<hi, lo>> with value hi * 65536 + lo *)

Limb == 65536

U32Zero == <<0, 0>>

U32One == <<0, 1>>

U32Max == <<Limb - 1, Limb - 1>>

Digits == <<"0", "1", "2", "3", "4", "5", "6", "7", "8", "9">>

IsDigit(c) == \E k \in 1..10 : Digits[k] = c

DigitVal(c) == (CHOOSE k \in 1..10 : Digits[k] = c) - 1

\* the digit loop of u32::from_str: Err on a non-digit and on overflow
RECURSIVE ParseDigits(_, _, _)
ParseDigits(s, k, acc) ==
    IF k > Len(s) THEN Some(acc)
    ELSE IF ~IsDigit(s[k]) THEN None
    ELSE LET lo2 == acc[2] * 10 + DigitVal(s[k])
             hi2 == acc[1] * 10 + (lo2 \div Limb)
         IN  IF hi2 >= Limb THEN None
             ELSE ParseDigits(s, k + 1, <<hi2, lo2 % Limb>>)

\* str::parse::<u32>(): an optional leading '+', then at least one digit
ParseU32(s) ==
    LET body == IF Len(s) > 0 /\ s[1] = "+" THEN Tail(s) ELSE s
    IN  IF Len(body) = 0 THEN None ELSE ParseDigits(body, 1, U32Zero)

\* Option::unwrap_or(0)
UnwrapOr0(o) == IF IsSome(o) THEN o[1] ELSE U32Zero

\* n + 1 in wrapping arithmetic (a build without overflow checks)
WrappingInc(n) ==
    IF n[2] + 1 < Limb THEN <<n[1], n[2] + 1>>
    ELSE IF n[1] + 1 < Limb THEN <<n[1] + 1, 0>>
    ELSE U32Zero

\* whether n + 1 overflows a u32
IncOverflows(n) == n = U32Max

-----------------------------------------------------------------------------
(* Hunk header decoding *)

\* a slip: one bad number zeroes the whole range
parse_range_allOrNothing(range) ==
    LET sc == SplitOnceComma(range)
    IN  IF IsSome(sc)
        THEN IF IsSome(ParseU32(sc[1][1])) /\ IsSome(ParseU32(sc[1][2]))
             THEN <<ParseU32(sc[1][1])[1], ParseU32(sc[1][2])[1]>>
             ELSE <<U32Zero, U32Zero>>
        ELSE IF IsSome(ParseU32(range)) THEN <<ParseU32(range)[1], U32One>>
             ELSE <<U32Zero, U32Zero>>

\* parse_range: "start,count" or "start" (count 1); a bad number is 0
parse_range(range) ==
    LET sc == SplitOnceComma(range)
    IN  IF IsSome(sc)
        THEN <<UnwrapOr0(ParseU32(sc[1][1])), UnwrapOr0(ParseU32(sc[1][2]))>>
        ELSE <<UnwrapOr0(ParseU32(range)), U32One>>

\* parse_hunk_header: Some(<<old_start, old_count, new_start, new_count>>),
\* or None when a `?` fails
parse_hunk_header(line) ==
    LET rest == StripPrefix(line, PfxHunk)
    IN  IF rest = None THEN None
        ELSE
        LET end == Find(rest[1], HunkClose)
        IN  IF end = None THEN None
            ELSE
            LET range_part == SubSeq(rest[1], 1, end[1])
                parts      == SplitWhitespace(range_part)
            IN  IF Len(parts) < 1 THEN None
                ELSE
                LET old_range == StripPrefix(parts[1], <<"-">>)
                IN  IF old_range = None THEN None
                    ELSE IF Len(parts) < 2 THEN None
                    ELSE
                    LET new_range == StripPrefix(parts[2], <<"+">>)
                    IN  IF new_range = None THEN None
                        ELSE
                        LET o == parse_range(old_range[1])
                            n == parse_range(new_range[1])
                        IN  Some(<<o[1], o[2], n[1], n[2]>>)

-----------------------------------------------------------------------------
(* The data model *)

\* the locals of a file block as initialised at the boundary marker; the
\* value pushed as a DiffFile is this record
FreshFile ==
    [path |-> <<>>, old_path |-> None, status |-> "Modified", hunks |-> <<>>]

\* the locals of a hunk before any hunk is open
NoHunk ==
    [header |-> <<>>, old_start |-> U32Zero, old_count |-> U32Zero,
     new_start |-> U32Zero, new_count |-> U32Zero, lines |-> <<>>,
     old_line |-> U32Zero, new_line |-> U32Zero]

\* the locals of a hunk right after its header decoded to d
OpenHunk(line, d) ==
    [header |-> line, old_start |-> d[1], old_count |-> d[2],
     new_start |-> d[3], new_count |-> d[4], lines |-> <<>>,
     old_line |-> d[1], new_line |-> d[3]]

\* the DiffHunk pushed when the hunk body ends
DiffHunkOf(h) ==
    [header |-> h.header, old_start |-> h.old_start, old_count |-> h.old_count,
     new_start |-> h.new_start, new_count |-> h.new_count, lines |-> h.lines]

\* a slip: a second leading `+` is removed from the content too
MkAddition_trimmed(content, h) ==
    [content |-> IF StartsWith(content, <<"+">>) THEN Tail(content) ELSE content,
     line_type |-> "Addition",
     old_line_no |-> None, new_line_no |-> Some(h.new_line)]

MkAddition(content, h) ==
    [content |-> content, line_type |-> "Addition",
     old_line_no |-> None, new_line_no |-> Some(h.new_line)]

\* a slip: a Deletion that also carries the new-side number
MkDeletion_bothNumbers(content, h) ==
    [content |-> content, line_type |-> "Deletion",
     old_line_no |-> Some(h.old_line), new_line_no |-> Some(h.new_line)]

MkDeletion(content, h) ==
    [content |-> content, line_type |-> "Deletion",
     old_line_no |-> Some(h.old_line), new_line_no |-> None]

MkContext(content, h) ==
    [content |-> content, line_type |-> "Context",
     old_line_no |-> Some(h.old_line), new_line_no |-> Some(h.new_line)]

-----------------------------------------------------------------------------
(* parse_unified_diff, one loop iteration at a time.  A parser state s is   *)
(* [i, pc, files, file, hunk]; ls is the vector of input lines.             *)

Start ==
    [i |-> 0, pc |-> "scan", files |-> <<>>, file |-> FreshFile, hunk |-> NoHunk]

\* a slip: the path taken after the first " b/" instead of the last
InitialPath_firstSep(line) ==
    LET b_pos == Find(line, SepB)
    IN  IF IsSome(b_pos) THEN SubSeq(line, b_pos[1] + 3 + 1, Len(line)) ELSE <<>>

\* the path taken from the boundary marker: what follows the last " b/"
InitialPath(line) ==
    LET b_pos == RFind(line, SepB)
    IN  IF IsSome(b_pos) THEN SubSeq(line, b_pos[1] + 3 + 1, Len(line)) ELSE <<>>

\* files.push(DiffFile {..}) and back to the outer loop, cursor unchanged
PushFile(s) ==
    [s EXCEPT !.files = Append(@, s.file), !.file = FreshFile, !.pc = "scan"]

\* one iteration of the outer loop
ScanStep(ls, s) ==
    LET line == ls[s.i + 1]
    IN  IF StartsWith(line, PfxDiffGit)
        THEN [s EXCEPT !.file = [FreshFile EXCEPT !.path = InitialPath(line)],
                       !.i = @ + 1, !.pc = "meta"]
        ELSE [s EXCEPT !.i = @ + 1]

\* the condition of the metadata loop
MetaLoopContinues(ls, s) ==
    /\ s.i < Len(ls)
    /\ ~StartsWith(ls[s.i + 1], PfxDiffGit)

\* a slip: `new file mode` leaves the status of a renamed file alone
SetAdded_unlessRenamed(f) ==
    IF f.status = "Renamed" THEN f ELSE [f EXCEPT !.status = "Added"]

SetAdded(f) == [f EXCEPT !.status = "Added"]

SetDeleted(f) == [f EXCEPT !.status = "Deleted"]

SetRenameFrom(f, from) == [f EXCEPT !.old_path = Some(from), !.status = "Renamed"]

SetRenameTo(f, to) == [f EXCEPT !.path = to]

\* the `@@ ` branch of the metadata loop: a header that decodes opens the
\* hunk body; one that does not falls through to the loop's i += 1
HunkHeaderStep(line, s) ==
    LET d == parse_hunk_header(line)
    IN  IF IsSome(d)
        THEN [s EXCEPT !.hunk = OpenHunk(line, d[1]), !.i = @ + 1, !.pc = "hunk"]
        ELSE [s EXCEPT !.i = @ + 1]

\* one iteration of the metadata loop
MetaStep(ls, s) ==
    LET line == ls[s.i + 1]
        from == StripPrefix(line, PfxRenameFrom)
        to   == StripPrefix(line, PfxRenameTo)
    IN  IF StartsWith(line, PfxNewFileMode)
        THEN [s EXCEPT !.file = SetAdded(@), !.i = @ + 1]
        ELSE IF StartsWith(line, PfxDeletedFileMode)
        THEN [s EXCEPT !.file = SetDeleted(@), !.i = @ + 1]
        ELSE IF IsSome(from)
        THEN [s EXCEPT !.file = SetRenameFrom(@, from[1]), !.i = @ + 1]
        ELSE IF IsSome(to)
        THEN [s EXCEPT !.file = SetRenameTo(@, to[1]), !.i = @ + 1]
        ELSE IF StartsWith(line, PfxBinaryFiles)
        THEN PushFile(s)
        ELSE IF StartsWith(line, PfxOldFile)
        THEN [s EXCEPT !.i = @ + 1]
        ELSE IF StartsWith(line, PfxNewFile)
        THEN [s EXCEPT !.i = @ + 1]
        ELSE IF StartsWith(line, PfxHunk)
        THEN HunkHeaderStep(line, s)
        ELSE [s EXCEPT !.i = @ + 1]

\* a slip: the hunk-body loop does not stop at a file boundary
HunkLoopEnds_noBoundary(ls, s) ==
    IF s.i >= Len(ls) THEN TRUE
    ELSE StartsWith(ls[s.i + 1], PfxHunk)

\* the hunk-body loop stops: end of input, a file boundary or a hunk header
HunkLoopEnds(ls, s) ==
    IF s.i >= Len(ls) THEN TRUE
    ELSE IF StartsWith(ls[s.i + 1], PfxDiffGit) THEN TRUE
    ELSE StartsWith(ls[s.i + 1], PfxHunk)

\* `counter += 1` failing: an overflow in a build with overflow checks
IncPanics(n, checks) == checks /\ IncOverflows(n)

Panic(s) == [s EXCEPT !.pc = "panicked"]

\* a slip: an unrecognised body line ends the hunk and is handed back to the
\* metadata loop
SkipLine_endsHunk(s) ==
    [s EXCEPT !.file.hunks = Append(@, DiffHunkOf(s.hunk)), !.hunk = NoHunk,
              !.pc = "meta"]

\* a body line that is neither `+`, `-` nor space prefixed
SkipLine(s) == [s EXCEPT !.i = @ + 1]

\* a slip: the no-newline marker counted as a line of the new file
SkipNoNewline_counted(s) ==
    [s EXCEPT !.i = @ + 1, !.hunk.new_line = WrappingInc(@)]

\* the `\ No newline at end of file` marker: i += 1; continue
SkipNoNewline(s) == [s EXCEPT !.i = @ + 1]

\* one iteration of the hunk-body loop
HunkStep(ls, checks, s) ==
    LET hline == ls[s.i + 1]
        h     == s.hunk
        add   == StripPrefix(hline, <<"+">>)
        del   == StripPrefix(hline, <<"-">>)
        ctx   == StripPrefix(hline, <<" ">>)
    IN  IF hline = NoNewlineMarker
        THEN SkipNoNewline(s)
        ELSE IF IsSome(add)
        THEN IF IncPanics(h.new_line, checks) THEN Panic(s)
             ELSE [s EXCEPT !.hunk.lines = Append(@, MkAddition(add[1], h)),
                            !.hunk.new_line = WrappingInc(@),
                            !.i = @ + 1]
        ELSE IF IsSome(del)
        THEN IF IncPanics(h.old_line, checks) THEN Panic(s)
             ELSE [s EXCEPT !.hunk.lines = Append(@, MkDeletion(del[1], h)),
                            !.hunk.old_line = WrappingInc(@),
                            !.i = @ + 1]
        ELSE IF IsSome(ctx)
        THEN IF IncPanics(h.old_line, checks) \/ IncPanics(h.new_line, checks)
             THEN Panic(s)
             ELSE [s EXCEPT !.hunk.lines = Append(@, MkContext(ctx[1], h)),
                            !.hunk.old_line = WrappingInc(@),
                            !.hunk.new_line = WrappingInc(@),
                            !.i = @ + 1]
        ELSE SkipLine(s)

\* a slip: a hunk without lines is not recorded
PushHunk_nonEmptyOnly(s) ==
    IF s.hunk.lines = <<>> THEN [s EXCEPT !.hunk = NoHunk, !.pc = "meta"]
    ELSE [s EXCEPT !.file.hunks = Append(@, DiffHunkOf(s.hunk)), !.hunk = NoHunk,
                   !.pc = "meta"]

\* hunks.push(DiffHunk {..}); continue: back to the metadata loop on the
\* same line
PushHunk(s) ==
    [s EXCEPT !.file.hunks = Append(@, DiffHunkOf(s.hunk)), !.hunk = NoHunk,
              !.pc = "meta"]

\* the step the code takes from s
Step(ls, checks, s) ==
    IF s.pc = "scan"
    THEN IF s.i < Len(ls) THEN ScanStep(ls, s) ELSE [s EXCEPT !.pc = "done"]
    ELSE IF s.pc = "meta"
    THEN IF MetaLoopContinues(ls, s) THEN MetaStep(ls, s) ELSE PushFile(s)
    ELSE IF s.pc = "hunk"
    THEN IF HunkLoopEnds(ls, s) THEN PushHunk(s) ELSE HunkStep(ls, checks, s)
    ELSE s

RECURSIVE Run(_, _, _)
Run(ls, checks, s) ==
    IF s.pc \in {"done", "panicked"} THEN s ELSE Run(ls, checks, Step(ls, checks, s))

\* the whole call: the final state, whose files are the return value when
\* pc = "done"
parse_unified_diff(ls, checks) == Run(ls, checks, Start)

-----------------------------------------------------------------------------
(* run_git_diff.  A state g of the call is [range, repo_path, pc, invoked,   *)
(* output, fallback, result]: pc is "first" before the first command,       *)
(* "fallback" before the second, "returned" after the return; invoked lists *)
(* the commands run so far.                                                 *)

Ok(v) == <<"Ok", v>>

Err(e) == <<"Err", e>>

\* String::from_utf8_lossy(..).to_string(), as code points: a byte below 128
\* is its character; the byte 255, which no UTF-8 text contains, becomes
\* U+FFFD
FromUtf8Lossy(bytes) ==
    [k \in 1..Len(bytes) |-> IF bytes[k] < 128 THEN bytes[k] ELSE 65533]

\* format!("Failed to execute git diff: {}", e)
FailedToExecute(e) == <<"Failed to execute git diff: ", e>>

\* format!("Failed to execute git diff fallback: {}", e)
FailedToExecuteFallback(e) == <<"Failed to execute git diff fallback: ", e>>

\* the arguments of the first command
args(range) == IF IsSome(range) THEN <<"diff", range[1]>> ELSE <<"diff", "HEAD">>

\* the arguments of the fallback command
FallbackArgs == <<"diff">>

\* Command::new("git").args(a).current_dir(dir)
Command(a, dir) == [program |-> "git", args |-> a, current_dir |-> dir]

\* no call of run_git_diff
NoGit ==
    [range |-> None, repo_path |-> "", pc |-> "unused", invoked |-> <<>>,
     output |-> None, fallback |-> None, result |-> None]

\* run_git_diff entered with its two arguments
GitStart(range, repo_path) ==
    [range |-> range, repo_path |-> repo_path, pc |-> "first", invoked |-> <<>>,
     output |-> None, fallback |-> None, result |-> None]

Returns(g, r) == [g EXCEPT !.pc = "returned", !.result = Some(r)]

\* a slip: a failed first command falls back whether or not a range was given
AfterOutput_alwaysFallback(g, o) ==
    LET g1 == [g EXCEPT !.invoked = Append(@, Command(args(g.range), g.repo_path)),
                        !.output = Some(o)]
    IN  IF o.kind = "spawn_error" THEN Returns(g1, Err(FailedToExecute(o.err)))
        ELSE IF o.success THEN Returns(g1, Ok(FromUtf8Lossy(o.stdout)))
        ELSE [g1 EXCEPT !.pc = "fallback"]

\* the first command run with outcome o, and what the function does with it
AfterOutput(g, o) ==
    LET g1 == [g EXCEPT !.invoked = Append(@, Command(args(g.range), g.repo_path)),
                        !.output = Some(o)]
    IN  IF o.kind = "spawn_error" THEN Returns(g1, Err(FailedToExecute(o.err)))
        ELSE IF o.success THEN Returns(g1, Ok(FromUtf8Lossy(o.stdout)))
        ELSE IF g.range = None THEN [g1 EXCEPT !.pc = "fallback"]
        ELSE Returns(g1, Err(FromUtf8Lossy(o.stderr)))

\* a slip: a failed fallback reports the first command's stderr
AfterFallback_firstError(g, o) ==
    LET g1 == [g EXCEPT !.invoked = Append(@, Command(FallbackArgs, g.repo_path)),
                        !.fallback = Some(o)]
    IN  IF o.kind = "spawn_error" THEN Returns(g1, Err(FailedToExecuteFallback(o.err)))
        ELSE IF o.success THEN Returns(g1, Ok(FromUtf8Lossy(o.stdout)))
        ELSE Returns(g1, Err(FromUtf8Lossy(g.output[1].stderr)))

\* the fallback command run with outcome o, and what the function does with it
AfterFallback(g, o) ==
    LET g1 == [g EXCEPT !.invoked = Append(@, Command(FallbackArgs, g.repo_path)),
                        !.fallback = Some(o)]
    IN  IF o.kind = "spawn_error" THEN Returns(g1, Err(FailedToExecuteFallback(o.err)))
        ELSE IF o.success THEN Returns(g1, Ok(FromUtf8Lossy(o.stdout)))
        ELSE Returns(g1, Err(FromUtf8Lossy(o.stderr)))

-----------------------------------------------------------------------------
(* get_diff and find_repo_root.  A text is a String as a sequence of code    *)
(* points.  A state c of a get_diff call is [range, remote, pc, called,     *)
(* source, result]: pc is "start" at entry, "local" while run_git_diff      *)
(* runs, "parse" while parse_unified_diff runs, "returned" after the        *)
(* return; called lists the functions called so far, source is what the    *)
(* sourcing step returned.                                                  *)

\* the characters of the code points 32..126; the grave accent, which a
\* string of this language cannot hold, is written U+0060
Ascii ==
    <<
      " ", "!", "\"", "#", "$", "%", "&", "'", "(", ")", "*", "+",
      ",", "-", ".", "/", "0", "1", "2", "3", "4", "5", "6", "7",
      "8", "9", ":", ";", "<", "=", ">", "?", "@", "A", "B", "C",
      "D", "E", "F", "G", "H", "I", "J", "K", "L", "M", "N", "O",
      "P", "Q", "R", "S", "T", "U", "V", "W", "X", "Y", "Z", "[",
      "\\", "]", "^", "_", "U+0060", "a", "b", "c", "d", "e", "f", "g",
      "h", "i", "j", "k", "l", "m", "n", "o", "p", "q", "r", "s",
      "t", "u", "v", "w", "x", "y", "z", "{", "|", "}", "~"
    >>

\* the one-character string of a code point: printable ASCII, or U+FFFD
CharOf(c) == IF c >= 32 /\ c <= 126 THEN Ascii[c - 31] ELSE "U+FFFD"

\* the characters of a line of code points
CharsOf(cs) == [k \in 1..Len(cs) |-> CharOf(cs[k])]

\* a line as str::lines() yields it: without the `\r` of a `\r\n` ending
StripCr(cs, terminated) ==
    IF terminated /\ Len(cs) > 0 /\ cs[Len(cs)] = 13 THEN SubSeq(cs, 1, Len(cs) - 1)
    ELSE cs

\* str::lines() from position k on, cur being the line read so far: a line
\* ends at `\n` or `\r\n`; the last line needs no ending and an ending at
\* the very end opens no further line
RECURSIVE LinesFrom(_, _, _)
LinesFrom(text, k, cur) ==
    IF k > Len(text) THEN (IF cur = <<>> THEN <<>> ELSE <<CharsOf(cur)>>)
    ELSE IF text[k] = 10
    THEN <<CharsOf(StripCr(cur, TRUE))>> \o LinesFrom(text, k + 1, <<>>)
    ELSE LinesFrom(text, k + 1, Append(cur, text[k]))

\* diff_text.lines().collect()
Lines(text) == LinesFrom(text, 1, <<>>)

\* char::is_whitespace on the code points that occur
IsWhitespaceCode(c) == c \in {9, 10, 11, 12, 13, 32}

\* str::trim()
RECURSIVE Trim(_)
Trim(text) ==
    IF text = <<>> THEN text
    ELSE IF IsWhitespaceCode(text[1]) THEN Trim(Tail(text))
    ELSE IF IsWhitespaceCode(text[Len(text)]) THEN Trim(SubSeq(text, 1, Len(text) - 1))
    ELSE text

\* format!("Failed to run git: {e}")
FailedToRunGit(e) == <<"Failed to run git: ", e>>

\* format!("Not inside a git repository: {}", ..)
NotInsideRepository(text) == <<"Not inside a git repository: ", text>>

\* find_repo_root, `git rev-parse --show-toplevel` having had outcome o
find_repo_root(o) ==
    IF o.kind = "spawn_error" THEN Err(FailedToRunGit(o.err))
    ELSE IF ~o.success THEN Err(NotInsideRepository(Trim(FromUtf8Lossy(o.stderr))))
    ELSE Ok(Trim(FromUtf8Lossy(o.stdout)))

\* no call of get_diff
NoCmd ==
    [range |-> None, remote |-> None, pc |-> "unused", called |-> <<>>,
     source |-> None, result |-> None]

\* get_diff entered with its two arguments
CmdStart(range, remote) ==
    [range |-> range, remote |-> remote, pc |-> "start", called |-> <<>>,
     source |-> None, result |-> None]

\* the `?` on an Err of the sourcing step: get_diff returns that Err
ReturnsErr(c, r) == [c EXCEPT !.pc = "returned", !.source = Some(r), !.result = Some(r)]

\* the sourcing step gave Ok(diff_text): parse_unified_diff is called next
GoesOnToParse(c, r) == [c EXCEPT !.pc = "parse", !.source = Some(r)]

-----------------------------------------------------------------------------
(* Input lines the specifications draw from *)

LnDiffXY ==
    <<"d", "i", "f", "f", " ", "-", "-", "g", "i", "t", " ", "a", "/", "x", " ", "b", "/", "y">>

LnDiffW ==
    <<"d", "i", "f", "f", " ", "-", "-", "g", "i", "t", " ", "a", "/", "w", " ", "b", "/", "w">>

LnNewFile ==
    <<"n", "e", "w", " ", "f", "i", "l", "e", " ", "m", "o", "d", "e", " ", "1", "0", "0", "6", "4", "4">>

LnDeleted ==
    <<"d", "e", "l", "e", "t", "e", "d", " ", "f", "i", "l", "e", " ", "m", "o", "d", "e", " ", "1", "0", "0", "6", "4", "4">>

LnRenameFrom ==
    <<"r", "e", "n", "a", "m", "e", " ", "f", "r", "o", "m", " ", "x">>

LnRenameTo ==
    <<"r", "e", "n", "a", "m", "e", " ", "t", "o", " ", "z">>

LnBinary ==
    <<"B", "i", "n", "a", "r", "y", " ", "f", "i", "l", "e", "s", " ", "d", "i", "f", "f", "e", "r">>

\* @@ -1,2 +3 @@
LnHunk ==
    <<"@", "@", " ", "-", "1", ",", "2", " ", "+", "3", " ", "@", "@">>

\* @@ -1 +1   (no closing " @@")
LnHunkNoClose ==
    <<"@", "@", " ", "-", "1", " ", "+", "1">>

\* @@ -4294967295 +7,0 @@ fn
LnHunkMax ==
    <<"@", "@", " ", "-", "4", "2", "9", "4", "9", "6", "7", "2", "9", "5", " ", "+", "7", ",", "0",
      " ", "@", "@", " ", "f", "n">>

LnAdd == <<"+", "a">>

LnDel == <<"-", "b">>

LnCtx == <<" ", "c">>

LnOldFile ==
    <<"-", "-", "-", " ", "a", "/", "x">>

LnNewFileName ==
    <<"+", "+", "+", " ", "b", "/", "y">>

LnEmpty == <<>>

\* the sequences over S of length at most n
SeqsUpTo(S, n) == UNION {[1..k -> S] : k \in 0..n}

\* file blocks: boundaries, metadata, a binary marker, hunk headers that do
\* and do not decode, a body line
BlockVocab ==
    {LnDiffXY, LnDiffW, LnNewFile, LnDeleted, LnRenameFrom, LnRenameTo, LnBinary,
     LnHunk, LnHunkNoClose, LnAdd}

\* hunk bodies: the three line types, the no-newline marker, an empty line,
\* the `--- ` and `+++ ` file-name lines, further headers (one at the top of
\* the u32 range, one that does not decode) and a file boundary
BodyVocab ==
    {LnAdd, LnDel, LnCtx, NoNewlineMarker, LnEmpty, LnOldFile, LnNewFileName,
     LnHunk, LnHunkMax, LnHunkNoClose, LnDiffXY}

\* the texts a range's start is drawn from: plain, two-digit and zero-padded
\* numbers, u32::MAX, u32::MAX + 1, nothing, a letter, and a signed number
RangeStarts ==
    {<<"1">>, <<"2", "0">>, <<"0", "0", "7">>,
     <<"4", "2", "9", "4", "9", "6", "7", "2", "9", "5">>,
     <<"4", "2", "9", "4", "9", "6", "7", "2", "9", "6">>,
     <<>>, <<"x">>, <<"+", "5">>}

\* the texts a range's count is drawn from, None for a range without comma;
\* "2,3" puts a second comma after the one split_once splits at
RangeCounts ==
    {None, Some(<<"2">>), Some(<<"0">>), Some(<<>>), Some(<<"x">>),
     Some(<<"2", ",", "3">>),
     Some(<<"4", "2", "9", "4", "9", "6", "7", "2", "9", "6">>)}

\* the text of a range: "start" or "start,count"
RangeText(start, count) ==
    IF IsSome(count) THEN start \o <<",">> \o count[1] ELSE start

\* the header line `@@ -<old> +<new> @@`
HeaderLine(old, new) ==
    <<"@", "@", " ", "-">> \o old \o <<" ", "+">> \o new \o HunkClose

\* every header line over RangeStarts and RangeCounts
HeaderVocab ==
    {HeaderLine(RangeText(a, b), RangeText(c, d)) :
        a \in RangeStarts, b \in RangeCounts, c \in RangeStarts, d \in RangeCounts}

\* boundary lines with two ` b/`, with none, with one that ends the line, and
\* with spaces in the path
LnDiffTwoSeps ==
    <<"d", "i", "f", "f", " ", "-", "-", "g", "i", "t", " ", "a", "/", "q", " ", "b", "/", "r", " ", "b", "/", "s">>

LnDiffNoSep ==
    <<"d", "i", "f", "f", " ", "-", "-", "g", "i", "t", " ", "a", "/", "x">>

LnDiffSepLast ==
    <<"d", "i", "f", "f", " ", "-", "-", "g", "i", "t", " ", "a", "/", "x", " ", "b", "/">>

LnDiffSpaced ==
    <<"d", "i", "f", "f", " ", "-", "-", "g", "i", "t", " ", "a", "/", "p", " ", "q", " ", "b", "/", "p", " ", "q">>

LnRenameToSpaced ==
    <<"r", "e", "n", "a", "m", "e", " ", "t", "o", " ", "u", " ", "b", "/", "v">>

PathMarkers == {LnDiffXY, LnDiffTwoSeps, LnDiffNoSep, LnDiffSepLast, LnDiffSpaced}

\* what may follow the first boundary: further boundaries, `rename to` lines,
\* a hunk, a binary marker
PathVocab ==
    {LnDiffTwoSeps, LnDiffNoSep, LnRenameTo, LnRenameToSpaced, LnHunk, LnAdd, LnBinary}

\* the bytes of a diff of one file with one hunk and one added line, every
\* line ended by `\n`
BytesSmallDiff ==
    <<100, 105, 102, 102, 32, 45, 45, 103, 105, 116, 32, 97, 47, 120, 32,
      98, 47, 121, 10, 64, 64, 32, 45, 49, 44, 50, 32, 43, 51, 32, 64, 64,
      10, 43, 97, 10>>

\* the bytes of a diff whose hunk starts at old line 4294967295 and deletes a
\* line, with `\r\n` line endings and none after the last line
BytesMaxDiff ==
    <<100, 105, 102, 102, 32, 45, 45, 103, 105, 116, 32, 97, 47, 120, 32,
      98, 47, 121, 13, 10, 64, 64, 32, 45, 52, 50, 57, 52, 57, 54, 55, 50,
      57, 53, 32, 43, 55, 44, 48, 32, 64, 64, 32, 102, 110, 13, 10, 45, 98>>

\* what stdout and stderr of a command may hold: nothing, a letter, an
\* invalid byte followed by a letter, and the two diffs
ByteTexts == {<<>>, <<100>>, <<255, 100>>, BytesSmallDiff, BytesMaxDiff}

\* the errors Command::output() may fail with
IoErrors == {"No such file or directory (os error 2)", "Permission denied (os error 13)"}

\* what running a command may give: it cannot be spawned, or it exits, with
\* or without success, having written stdout and stderr
Outcomes ==
    [kind : {"spawn_error"}, err : IoErrors]
    \cup [kind : {"exit"}, success : BOOLEAN, stdout : ByteTexts, stderr : ByteTexts]

\* the ranges a caller may pass
Ranges == {None, Some("HEAD~1"), Some("main..topic")}

RepoPaths == {"/repo", "/elsewhere"}

\* the remote specifications a caller may pass
Remotes == {None, Some("host:/srv/repo")}

\* what `git rev-parse --show-toplevel` may give: it cannot be spawned, it
\* fails with `fatal\n` on stderr, it prints `/r\n`
RootOutcomes ==
    [kind : {"spawn_error"}, err : IoErrors]
    \cup {[kind |-> "exit", success |-> FALSE, stdout |-> <<>>,
           stderr |-> <<102, 97, 116, 97, 108, 10>>],
          [kind |-> "exit", success |-> TRUE, stdout |-> <<47, 114, 10>>,
           stderr |-> <<>>]}

\* what the remote diff source may return: a text, or one of its errors as a
\* message
RemoteResults ==
    {Ok(FromUtf8Lossy(b)) : b \in ByteTexts}
    \cup {Err(<<m>>) : m \in {"CommandExecutionFailure", "NonZeroExit",
                              "RemoteConnectionFailure", "MalformedRemoteSpec"}}

-----------------------------------------------------------------------------
(* The state machine *)

Cur == [i |-> i, pc |-> pc, files |-> files, file |-> file, hunk |-> hunk]

Apply(s) ==
    /\ i' = s.i
    /\ pc' = s.pc
    /\ files' = s.files
    /\ file' = s.file
    /\ hunk' = s.hunk
    /\ UNCHANGED <<lines, overflow_checks, git, cmd>>

\* the parser at entry, given a text directly: no command is involved
InitParser ==
    /\ i = Start.i
    /\ pc = Start.pc
    /\ files = Start.files
    /\ file = Start.file
    /\ hunk = Start.hunk
    /\ git = NoGit
    /\ cmd = NoCmd

\* any text of at most MaxLen lines over BlockVocab
Init ==
    /\ lines \in SeqsUpTo(BlockVocab, MaxLen)
    /\ overflow_checks \in BOOLEAN
    /\ InitParser

\* a file whose first hunk header is followed by at most MaxBody lines over
\* BodyVocab
InitBody ==
    /\ \E h \in {LnHunk, LnHunkMax} : \E tail \in SeqsUpTo(BodyVocab, MaxBody) :
          lines = <<LnDiffXY, h>> \o tail
    /\ overflow_checks \in BOOLEAN
    /\ InitParser

\* ScanningForFile: the outer loop looks at lines[i]
ScanLine ==
    /\ pc = "scan"
    /\ i < Len(lines)
    /\ Apply(ScanStep(lines, Cur))

\* the outer loop ends: return files
Return ==
    /\ pc = "scan"
    /\ i >= Len(lines)
    /\ pc' = "done"
    /\ UNCHANGED <<lines, overflow_checks, i, files, file, hunk, git, cmd>>

\* InFileMetadata: the metadata loop classifies lines[i]
MetaLine ==
    /\ pc = "meta"
    /\ MetaLoopContinues(lines, Cur)
    /\ Apply(MetaStep(lines, Cur))

\* the metadata loop ends at a file boundary or at the end of input
EndFile ==
    /\ pc = "meta"
    /\ ~MetaLoopContinues(lines, Cur)
    /\ Apply(PushFile(Cur))

\* InHunkBody: the hunk-body loop classifies lines[i]
HunkLine ==
    /\ pc = "hunk"
    /\ ~HunkLoopEnds(lines, Cur)
    /\ Apply(HunkStep(lines, overflow_checks, Cur))

\* the hunk-body loop ends without consuming the line it stopped on
EndHunk ==
    /\ pc = "hunk"
    /\ HunkLoopEnds(lines, Cur)
    /\ Apply(PushHunk(Cur))

Next ==
    \/ ScanLine
    \/ Return
    \/ MetaLine
    \/ EndFile
    \/ HunkLine
    \/ EndHunk

Spec == Init /\ [][Next]_vars

SpecBody == InitBody /\ [][Next]_vars

\* a file with one hunk whose header is any line of HeaderVocab, followed by
\* one context line
InitHeader ==
    /\ \E h \in HeaderVocab : lines = <<LnDiffXY, h, LnCtx>>
    /\ overflow_checks \in BOOLEAN
    /\ InitParser

SpecHeader == InitHeader /\ [][Next]_vars

\* a boundary line of PathMarkers followed by at most MaxBody lines over
\* PathVocab
InitPath ==
    /\ \E m \in PathMarkers : \E tail \in SeqsUpTo(PathVocab, MaxBody) :
          lines = <<m>> \o tail
    /\ overflow_checks \in BOOLEAN
    /\ InitParser

SpecPath == InitPath /\ [][Next]_vars

-----------------------------------------------------------------------------
(* run_git_diff as a state machine *)

\* a call of run_git_diff with any range and repository; the parser is idle
InitGit ==
    /\ \E r \in Ranges : \E d \in RepoPaths : git = GitStart(r, d)
    /\ lines = <<>>
    /\ overflow_checks = FALSE
    /\ i = Start.i
    /\ pc = Start.pc
    /\ files = Start.files
    /\ file = Start.file
    /\ hunk = Start.hunk
    /\ cmd = NoCmd

\* the first command and the branch taken on its outcome
RunFirst ==
    /\ git.pc = "first"
    /\ \E o \in Outcomes : git' = AfterOutput(git, o)
    /\ UNCHANGED <<lines, overflow_checks, i, pc, files, file, hunk, cmd>>

\* the fallback command and the branch taken on its outcome
RunFallback ==
    /\ git.pc = "fallback"
    /\ \E o \in Outcomes : git' = AfterFallback(git, o)
    /\ UNCHANGED <<lines, overflow_checks, i, pc, files, file, hunk, cmd>>

NextGit ==
    \/ RunFirst
    \/ RunFallback

SpecGit == InitGit /\ [][NextGit]_vars

-----------------------------------------------------------------------------
(* get_diff as a state machine: the sourcing step, then the parser *)

\* a call of get_diff with any range and remote, in either build; neither
\* run_git_diff nor the parser has been called
InitGetDiff ==
    /\ \E r \in Ranges : \E m \in Remotes : cmd = CmdStart(r, m)
    /\ git = NoGit
    /\ lines = <<>>
    /\ overflow_checks \in BOOLEAN
    /\ i = Start.i
    /\ pc = "idle"
    /\ files = Start.files
    /\ file = Start.file
    /\ hunk = Start.hunk

\* parse_unified_diff(&diff_text) entered
EnterParser(text) ==
    /\ lines' = Lines(text)
    /\ i' = Start.i
    /\ pc' = Start.pc
    /\ files' = Start.files
    /\ file' = Start.file
    /\ hunk' = Start.hunk

\* what get_diff does with the Result r of its sourcing step, c being its
\* state after the call
AfterSource(c, r) ==
    IF r[1] = "Err"
    THEN /\ cmd' = ReturnsErr(c, r)
         /\ UNCHANGED <<lines, i, pc, files, file, hunk>>
    ELSE /\ cmd' = GoesOnToParse(c, r)
         /\ EnterParser(r[2])

\* remote given: run_remote_git_diff(r, range)?
RemoteSource ==
    /\ cmd.pc = "start"
    /\ IsSome(cmd.remote)
    /\ \E r \in RemoteResults :
          AfterSource([cmd EXCEPT !.called = Append(@, "run_remote_git_diff")], r)
    /\ UNCHANGED <<overflow_checks, git>>

\* no remote: find_repo_root()?, then run_git_diff is entered
FindRepoRoot ==
    /\ cmd.pc = "start"
    /\ cmd.remote = None
    /\ \E o \in RootOutcomes :
          LET r  == find_repo_root(o)
              c1 == [cmd EXCEPT !.called = Append(@, "find_repo_root")]
          IN  IF r[1] = "Err"
              THEN /\ cmd' = ReturnsErr(c1, r)
                   /\ UNCHANGED git
              ELSE /\ cmd' = [c1 EXCEPT !.pc = "local",
                                        !.called = Append(@, "run_git_diff")]
                   /\ git' = GitStart(cmd.range, r[2])
    /\ UNCHANGED <<lines, overflow_checks, i, pc, files, file, hunk>>

\* run_git_diff(..)? has returned
LocalDiffReturns ==
    /\ cmd.pc = "local"
    /\ git.pc = "returned"
    /\ AfterSource(cmd, git.result[1])
    /\ UNCHANGED <<overflow_checks, git>>

\* Ok(parse_unified_diff(&diff_text))
GetDiffReturns ==
    /\ cmd.pc = "parse"
    /\ pc = "done"
    /\ cmd' = [cmd EXCEPT !.pc = "returned", !.result = Some(Ok(files))]
    /\ UNCHANGED <<lines, overflow_checks, i, pc, files, file, hunk, git>>

NextGetDiff ==
    \/ RemoteSource
    \/ FindRepoRoot
    \/ RunFirst
    \/ RunFallback
    \/ LocalDiffReturns
    \/ ScanLine
    \/ Return
    \/ MetaLine
    \/ EndFile
    \/ HunkLine
    \/ EndHunk
    \/ GetDiffReturns

SpecGetDiff == InitGetDiff /\ [][NextGetDiff]_vars

-----------------------------------------------------------------------------
(* File blocks of the input, for the statements below *)

\* the 1-based positions of the lines that start with `diff --git `
MarkerPositions(ls) == {k \in 1..Len(ls) : StartsWith(ls[k], PfxDiffGit)}

\* the position of the n-th file-boundary marker
NthMarker(ls, n) ==
    CHOOSE k \in MarkerPositions(ls) :
        Cardinality({m \in MarkerPositions(ls) : m <= k}) = n

\* the positions of the lines of the n-th file block after its marker
BlockBody(ls, n) ==
    LET later == {m \in MarkerPositions(ls) : m > NthMarker(ls, n)}
        last  == IF later = {} THEN Len(ls)
                 ELSE (CHOOSE m \in later : \A q \in later : m <= q) - 1
    IN  (NthMarker(ls, n) + 1)..last

BlockHas(ls, n, prefix) == \E k \in BlockBody(ls, n) : StartsWith(ls[k], prefix)

\* every DiffLine built so far: returned, in the open file, in the open hunk
AllDiffLines ==
    LET ofHunks(hs) == UNION {{hs[m].lines[k] : k \in 1..Len(hs[m].lines)} : m \in 1..Len(hs)}
    IN  UNION {ofHunks(files[n].hunks) : n \in 1..Len(files)}
        \cup ofHunks(file.hunks)
        \cup {hunk.lines[k] : k \in 1..Len(hunk.lines)}

\* every DiffHunk of the returned files
ReturnedHunks ==
    UNION {{files[n].hunks[m] : m \in 1..Len(files[n].hunks)} : n \in 1..Len(files)}

\* start + k as a number, not as a u32: the high limb is not reduced
PlainAdd(n, k) == <<n[1] + ((n[2] + k) \div Limb), (n[2] + k) % Limb>>

\* the positions the parser classifies in the metadata loop, from state s on
RECURSIVE MetaClassifiedFrom(_, _, _)
MetaClassifiedFrom(ls, checks, s) ==
    IF s.pc \in {"done", "panicked"} THEN {}
    ELSE (IF s.pc = "meta" /\ MetaLoopContinues(ls, s) THEN {s.i + 1} ELSE {})
         \cup MetaClassifiedFrom(ls, checks, Step(ls, checks, s))

\* the lines of block n that set the status, among those classified as metadata
StatusSetters(ls, checks, n) ==
    {k \in BlockBody(ls, n) \cap MetaClassifiedFrom(ls, checks, Start) :
        \/ StartsWith(ls[k], PfxNewFileMode)
        \/ StartsWith(ls[k], PfxDeletedFileMode)
        \/ StartsWith(ls[k], PfxRenameFrom)}

SetMax(S) == CHOOSE k \in S : \A m \in S : m <= k

-----------------------------------------------------------------------------
(* C1 *)

\* C1: one DiffFile per line starting with `diff --git `, in input order:
\* while parsing, the files pushed plus the open one are as many as the
\* markers consumed; on return there are as many files as markers, and the
\* n-th file carries the path of the n-th marker or of a `rename to` line of
\* its block.  No marker gives the empty list.
OneFilePerBoundary ==
    LET consumed == Cardinality({k \in MarkerPositions(lines) : k <= i})
    IN  /\ pc = "scan" => Len(files) = consumed
        /\ pc \in {"meta", "hunk"} => Len(files) + 1 = consumed
        /\ pc = "done" =>
              /\ Len(files) = Cardinality(MarkerPositions(lines))
              /\ \A n \in 1..Len(files) :
                    \/ files[n].path = InitialPath(lines[NthMarker(lines, n)])
                    \/ \E k \in BlockBody(lines, n) :
                          StripPrefix(lines[k], PfxRenameTo) = Some(files[n].path)

\* a preamble line, then a file with a hunk ended by a second boundary
OneFilePerBoundaryWitness ==
    /\ pc = "done"
    /\ Len(files) = 2
    /\ ~StartsWith(lines[1], PfxDiffGit)
    /\ Len(files[1].hunks) = 1
    /\ files[1].path # files[2].path

-----------------------------------------------------------------------------
(* C2 *)

\* C2: in every returned hunk the old numbers over Deletion and Context
\* lines are old_start, old_start + 1, ... and the new numbers over Addition
\* and Context lines are new_start, new_start + 1, ...
HunkNumbersProgress ==
    pc = "done" =>
        \A h \in ReturnedHunks :
            LET olds == SelectSeq(h.lines, LAMBDA dl : dl.line_type \in {"Deletion", "Context"})
                news == SelectSeq(h.lines, LAMBDA dl : dl.line_type \in {"Addition", "Context"})
            IN  /\ \A k \in 1..Len(olds) :
                      olds[k].old_line_no = Some(PlainAdd(h.old_start, k - 1))
                /\ \A k \in 1..Len(news) :
                      news[k].new_line_no = Some(PlainAdd(h.new_start, k - 1))

-----------------------------------------------------------------------------
(* C3 *)

\* C3: an Addition has no old number and a new number, a Deletion an old
\* number and no new number, a Context line both.
LineNumbersMatchType ==
    \A dl \in AllDiffLines :
        /\ dl.line_type = "Addition" => (dl.old_line_no = None /\ IsSome(dl.new_line_no))
        /\ dl.line_type = "Deletion" => (IsSome(dl.old_line_no) /\ dl.new_line_no = None)
        /\ dl.line_type = "Context" => (IsSome(dl.old_line_no) /\ IsSome(dl.new_line_no))

\* a returned hunk with a line of each type
LineNumbersMatchTypeWitness ==
    /\ pc = "done"
    /\ \E h \in ReturnedHunks :
          {h.lines[k].line_type : k \in 1..Len(h.lines)} = {"Addition", "Deletion", "Context"}

-----------------------------------------------------------------------------
(* C4 *)

\* C4: in every returned DiffFile, old_path is set if and only if the status
\* is Renamed.
OldPathIffRenamed ==
    \A n \in 1..Len(files) :
        IsSome(files[n].old_path) <=> files[n].status = "Renamed"

-----------------------------------------------------------------------------
(* C5 *)

\* C5: a file block with a line starting with `Binary files` yields a
\* DiffFile without hunks, wherever that line is in the block.
BinaryBlockHasNoHunks ==
    pc = "done" =>
        \A n \in 1..Len(files) :
            BlockHas(lines, n, PfxBinaryFiles) => files[n].hunks = <<>>

-----------------------------------------------------------------------------
(* C6 *)

-----------------------------------------------------------------------------
(* C7 *)

\* C7: a block with a `rename from X` and a `rename to Y` line yields status
\* Renamed, old_path X and path Y.
RenamePairDecidesFile ==
    pc = "done" =>
        \A n \in 1..Len(files) :
            \A kf, kt \in BlockBody(lines, n) :
                (IsSome(StripPrefix(lines[kf], PfxRenameFrom))
                 /\ IsSome(StripPrefix(lines[kt], PfxRenameTo)))
                => /\ files[n].status = "Renamed"
                   /\ files[n].old_path = StripPrefix(lines[kf], PfxRenameFrom)
                   /\ Some(files[n].path) = StripPrefix(lines[kt], PfxRenameTo)

-----------------------------------------------------------------------------
(* C8 *)

\* the input without its `\ No newline at end of file` lines
WithoutNoNewline(ls) == SelectSeq(ls, LAMBDA l : l # NoNewlineMarker)

\* C8: the no-newline marker never becomes a DiffLine and changes no
\* counter: the result is the one the parser gives for the same input with
\* those lines removed (and it fails exactly when that parse fails).
NoNewlineMarkerIsInert ==
    LET other == parse_unified_diff(WithoutNoNewline(lines), overflow_checks)
    IN  /\ pc = "done" => (other.pc = "done" /\ files = other.files)
        /\ pc = "panicked" => other.pc = "panicked"

\* a marker between two numbered lines of a returned hunk
NoNewlineMarkerIsInertWitness ==
    /\ pc = "done"
    /\ \E k \in 2..(Len(lines) - 1) :
          /\ lines[k] = NoNewlineMarker
          /\ lines[k - 1] = LnDel
          /\ lines[k + 1] = LnAdd
    /\ \E h \in ReturnedHunks : Len(h.lines) >= 2

-----------------------------------------------------------------------------
(* C9 *)

\* some loop of the parser has an iteration or an exit to take
StepEnabled ==
    \/ pc = "scan"
    \/ pc = "meta"
    \/ pc = "hunk" /\ HunkLoopEnds(lines, Cur)
    \/ pc = "hunk" /\ ~HunkLoopEnds(lines, Cur)
           /\ HunkStep(lines, overflow_checks, Cur).pc # "panicked"

\* C9: on every input the parser goes on until the cursor is at the end of
\* the input and the result is returned: short of `done` it always has a
\* step to take.
ParserRunsToReturn == pc = "done" \/ StepEnabled

\* lines left to read, then the nesting depth of the loop the parser is in
Variant ==
    4 * (Len(lines) - i)
    + (IF pc = "hunk" THEN 3 ELSE IF pc = "meta" THEN 2 ELSE IF pc = "scan" THEN 1 ELSE 0)

\* no step repeats without progress: the hunk-body hand-off, the
\* `Binary files` exit and an undecodable hunk header all decrease Variant
EveryStepProgresses == [][Variant' < Variant]_vars

-----------------------------------------------------------------------------
(* C10 *)

\* C10: every line starting with `@@ ` that the metadata loop classifies
\* opens a hunk with that header and moves the parser to the hunk body.
EveryHunkLineOpensHunk ==
    [][(/\ pc = "meta"
        /\ MetaLoopContinues(lines, Cur)
        /\ StartsWith(lines[i + 1], PfxHunk))
       => (pc' = "hunk" /\ hunk'.header = lines[i + 1])]_vars

-----------------------------------------------------------------------------
(* C11 *)

\* the number each text of RangeStarts and RangeCounts denotes as a u32, 0
\* for the texts that are not a u32; the count of a range without comma is 1
FieldValue(text) ==
    IF text = <<"1">> THEN <<0, 1>>
    ELSE IF text = <<"2">> THEN <<0, 2>>
    ELSE IF text = <<"2", "0">> THEN <<0, 20>>
    ELSE IF text = <<"0", "0", "7">> THEN <<0, 7>>
    ELSE IF text = <<"+", "5">> THEN <<0, 5>>
    ELSE IF text = <<"4", "2", "9", "4", "9", "6", "7", "2", "9", "5">>
         THEN <<65535, 65535>>
    ELSE <<0, 0>>

CountValue(count) == IF IsSome(count) THEN FieldValue(count[1]) ELSE <<0, 1>>

\* the hunk in progress and every hunk recorded so far
HunksSoFar ==
    (IF pc = "hunk" THEN {DiffHunkOf(hunk)} ELSE {})
    \cup {file.hunks[m] : m \in 1..Len(file.hunks)}
    \cup ReturnedHunks

\* C11: a decoded header `@@ -a[,b] +c[,d] @@` gives old_start, old_count,
\* new_start, new_count field by field: each is the number its own text
\* denotes, 0 when that text is not a u32 (the empty count included), 1 for a
\* count that is absent, whatever the other three texts are.
RangesDecodeFieldwise ==
    \A h \in HunksSoFar :
        \A a \in RangeStarts : \A b \in RangeCounts :
            StartsWith(h.header, <<"@", "@", " ", "-">> \o RangeText(a, b) \o <<" ">>) =>
                \A c \in RangeStarts : \A d \in RangeCounts :
                    h.header = HeaderLine(RangeText(a, b), RangeText(c, d)) =>
                        /\ h.old_start = FieldValue(a)
                        /\ h.old_count = CountValue(b)
                        /\ h.new_start = FieldValue(c)
                        /\ h.new_count = CountValue(d)

\* `@@ -1, +x @@` was decoded and returned: old count and new start are 0,
\* old start is 1 and the absent new count is 1
RangesDecodeFieldwiseWitness ==
    /\ pc = "done"
    /\ \E h \in ReturnedHunks :
          /\ h.header = HeaderLine(<<"1", ",">>, <<"x">>)
          /\ h.old_start = <<0, 1>>
          /\ h.old_count = <<0, 0>>
          /\ h.new_start = <<0, 0>>
          /\ h.new_count = <<0, 1>>

-----------------------------------------------------------------------------
(* C12 *)

\* the m-th smallest element of a set of positions
NthOf(S, m) == CHOOSE k \in S : Cardinality({j \in S : j <= k}) = m

\* the positions in block n of the hunk-header lines that decode
DecodableHeaders(ls, n) ==
    {k \in BlockBody(ls, n) :
        StartsWith(ls[k], PfxHunk) /\ IsSome(parse_hunk_header(ls[k]))}

\* the last position of the stretch that starts after the header at p: it
\* stops before the next line that starts with `@@ `, or with the block
BodyEnd(ls, n, p) ==
    LET later == {k \in BlockBody(ls, n) : k > p /\ StartsWith(ls[k], PfxHunk)}
    IN  IF later = {} THEN SetMax(BlockBody(ls, n) \cup {p})
        ELSE NthOf(later, 1) - 1

\* a line that starts with `+`, `-` or a space
IsBodyLine(l) == Len(l) > 0 /\ l[1] \in {"+", "-", " "}

TypeOfPrefix(c) ==
    IF c = "+" THEN "Addition" ELSE IF c = "-" THEN "Deletion" ELSE "Context"

\* the `+`/`-`/space lines of a stretch, in order, as <<type, content>>
BodyLinesOf(ls, from, to) ==
    LET sel == SelectSeq(SubSeq(ls, from, to), IsBodyLine)
    IN  [k \in 1..Len(sel) |-> <<TypeOfPrefix(sel[k][1]), Tail(sel[k])>>]

RecordedLinesOf(h) ==
    [k \in 1..Len(h.lines) |-> <<h.lines[k].line_type, h.lines[k].content>>]

\* C12: on return, a block without a `Binary files` line has one DiffHunk per
\* hunk-header line of the block that decodes, in input order, and the lines
\* of each hunk are the `+`/`-`/space-prefixed input lines between its header
\* and the next hunk-header line, file boundary or end of input, in order.
HunksPartitionBlock ==
    pc = "done" =>
        \A n \in 1..Len(files) :
            ~BlockHas(lines, n, PfxBinaryFiles) =>
                LET hs == DecodableHeaders(lines, n)
                IN  /\ Len(files[n].hunks) = Cardinality(hs)
                    /\ \A m \in 1..Cardinality(hs) :
                          LET p == NthOf(hs, m)
                          IN  /\ files[n].hunks[m].header = lines[p]
                              /\ RecordedLinesOf(files[n].hunks[m])
                                    = BodyLinesOf(lines, p + 1, BodyEnd(lines, n, p))

\* a file returned with two hunks of one line each
HunksPartitionBlockWitness ==
    /\ pc = "done"
    /\ \E n \in 1..Len(files) :
          /\ Len(files[n].hunks) = 2
          /\ Len(files[n].hunks[1].lines) = 1
          /\ Len(files[n].hunks[2].lines) = 1

-----------------------------------------------------------------------------
(* C13 *)

\* what follows the last ` b/` on each boundary line of PathMarkers
MarkerPath(line) ==
    IF line = LnDiffXY THEN <<"y">>
    ELSE IF line = LnDiffTwoSeps THEN <<"s">>
    ELSE IF line = LnDiffSpaced THEN <<"p", " ", "q">>
    ELSE <<>>

\* the `rename to ` lines of block n that the metadata loop classifies
RenameTos(ls, checks, n) ==
    {k \in BlockBody(ls, n) \cap MetaClassifiedFrom(ls, checks, Start) :
        StartsWith(ls[k], PfxRenameTo)}

\* the text of a line after its first ten characters, `rename to `
AfterRenameTo(line) == SubSeq(line, 11, Len(line))

\* C13: right after its boundary line the path of a block is what follows the
\* last ` b/` on that line, empty when the line has none; the returned path
\* is that same text unless the metadata of the block has a `rename to Y`
\* line, and then it is Y (of the last such line).
PathFromBoundaryOrRename ==
    /\ (pc = "meta" /\ i >= 1 /\ lines[i] \in PathMarkers)
          => file.path = MarkerPath(lines[i])
    /\ pc = "done" =>
          \A n \in 1..Len(files) :
              LET tos == RenameTos(lines, overflow_checks, n)
              IN  files[n].path =
                    IF tos = {} THEN MarkerPath(lines[NthMarker(lines, n)])
                    ELSE AfterRenameTo(lines[SetMax(tos)])

\* returned: a first file `diff --git a/q b/r b/s` with path s and a second
\* one renamed to `u b/v`
PathFromBoundaryOrRenameWitness ==
    /\ pc = "done"
    /\ Len(files) = 2
    /\ lines[1] = LnDiffTwoSeps
    /\ files[1].path = <<"s">>
    /\ files[2].path = <<"u", " ", "b", "/", "v">>

-----------------------------------------------------------------------------
(* C14 *)

ExitedWith(o, success) == IsSome(o) /\ o[1].kind = "exit" /\ o[1].success = success

\* C14: without a range the first command is `git diff HEAD`; when it ran and
\* exited with failure the function runs `git diff` next and returns the
\* output of that command when it succeeds and its stderr, not the first
\* command's, when it fails; when the first command succeeded no second
\* command is run.
FallbackOnlyAfterFailedHead ==
    git.range = None =>
        /\ Len(git.invoked) >= 1 => git.invoked[1].args = <<"diff", "HEAD">>
        /\ ExitedWith(git.output, TRUE) =>
              /\ Len(git.invoked) = 1
              /\ git.fallback = None
              /\ git.result = Some(Ok(FromUtf8Lossy(git.output[1].stdout)))
        /\ (ExitedWith(git.output, FALSE) /\ git.pc = "returned") =>
              /\ Len(git.invoked) = 2
              /\ git.invoked[2].args = <<"diff">>
              /\ git.invoked[2].current_dir = git.repo_path
              /\ ExitedWith(git.fallback, TRUE) =>
                    git.result = Some(Ok(FromUtf8Lossy(git.fallback[1].stdout)))
              /\ ExitedWith(git.fallback, FALSE) =>
                    git.result = Some(Err(FromUtf8Lossy(git.fallback[1].stderr)))

\* returned without a range: both commands failed, with different stderr, and
\* the error is the second one's
FallbackOnlyAfterFailedHeadWitness ==
    /\ git.range = None
    /\ git.pc = "returned"
    /\ ExitedWith(git.output, FALSE)
    /\ ExitedWith(git.fallback, FALSE)
    /\ git.output[1].stderr = <<100>>
    /\ git.fallback[1].stderr = <<255, 100>>
    /\ git.result = Some(Err(<<65533, 100>>))

-----------------------------------------------------------------------------
(* C15 *)

SpawnFailed(o) == IsSome(o) /\ o[1].kind = "spawn_error"

\* C15: no command is run twice.  With a range one command, `git diff
\* <range>`, is run, and its failure is returned at once as an error holding
\* its stderr.  With or without a range, a command that cannot be spawned
\* ends the call with an error and no further command is run.
NoCommandRetried ==
    /\ \A j, k \in 1..Len(git.invoked) : j # k => git.invoked[j] # git.invoked[k]
    /\ IsSome(git.range) =>
          /\ Len(git.invoked) <= 1
          /\ git.pc # "fallback"
          /\ git.pc = "returned" =>
                /\ git.invoked = <<Command(<<"diff", git.range[1]>>, git.repo_path)>>
                /\ ExitedWith(git.output, FALSE) =>
                      git.result = Some(Err(FromUtf8Lossy(git.output[1].stderr)))
    /\ SpawnFailed(git.output) =>
          /\ git.pc = "returned"
          /\ Len(git.invoked) = 1
          /\ git.fallback = None
          /\ git.result = Some(Err(FailedToExecute(git.output[1].err)))
    /\ SpawnFailed(git.fallback) =>
          /\ git.pc = "returned"
          /\ Len(git.invoked) = 2
          /\ git.result = Some(Err(FailedToExecuteFallback(git.fallback[1].err)))

\* without a range, `git diff HEAD` could not be spawned: the call returned
\* the error after that one command
NoCommandRetriedWitness ==
    /\ git.range = None
    /\ SpawnFailed(git.output)
    /\ git.pc = "returned"
    /\ git.invoked = <<Command(<<"diff", "HEAD">>, git.repo_path)>>
    /\ git.result # None
    /\ git.result[1][1] = "Err"

-----------------------------------------------------------------------------
(* C16 *)

\* the step that ends a hunk body, and the steps that follow it.  The line
\* the body stopped on is not consumed and the hunk is appended to the file
\* in progress; that line is then looked at in InFileMetadata: a hunk header
\* (any one, or only one that decodes) opens the next hunk of the same file;
\* a boundary pushes the file, with the closed hunk last, and opens the next
\* file; at the end of input the file is pushed and the parser returns.
HandOverStep(onlyDecodable) ==
       (pc = "hunk" /\ HunkLoopEnds(lines, Cur)) =>
          LET closed == Append(file.hunks, DiffHunkOf(hunk))
              second == Step(lines, overflow_checks, Cur')
              third  == Step(lines, overflow_checks, second)
          IN  /\ i' = i
              /\ pc' = "meta"
              /\ files' = files
              /\ file' = [file EXCEPT !.hunks = closed]
              /\ IF i >= Len(lines)
                 THEN /\ second.files = Append(files, file')
                      /\ second.i = i
                      /\ third.pc = "done"
                      /\ third.files = second.files
                 ELSE IF StartsWith(lines[i + 1], PfxDiffGit)
                 THEN /\ second.files = Append(files, file')
                      /\ second.i = i
                      /\ third.pc = "meta"
                      /\ third.i = i + 1
                      /\ third.files = second.files
                      /\ third.file.hunks = <<>>
                 ELSE (onlyDecodable => IsSome(parse_hunk_header(lines[i + 1]))) =>
                      /\ second.pc = "hunk"
                      /\ second.i = i + 1
                      /\ second.hunk.header = lines[i + 1]
                      /\ second.hunk.lines = <<>>
                      /\ second.file = file'
                      /\ second.files = files

\* C16: the line that ends a hunk body is handed to InFileMetadata unconsumed
\* and acted on once: a hunk header opens the next hunk of the same file, a
\* file boundary finalizes the file, the closed hunk last, and opens the next
\* one, and the end of input finalizes hunk and file.
HunkEndHandsOver == [][HandOverStep(FALSE)]_vars

\* the same with `a hunk header` read as one that decodes
DecodableHunkEndHandsOver == [][HandOverStep(TRUE)]_vars

-----------------------------------------------------------------------------
(* C17 *)

\* whether k is the last line of block n that starts with one of the prefixes
LastWith(ls, n, k, prefixes) ==
    /\ \E p \in prefixes : StartsWith(ls[k], p)
    /\ \A q \in BlockBody(ls, n) :
          q > k => \A p \in prefixes : ~StartsWith(ls[q], p)

\* C17: a `Binary files` line leaves the parser in InFileMetadata: in a block
\* without hunk headers, the metadata lines after the `Binary files` line
\* are applied as they are before it (the last `rename to Y` gives the path,
\* a last status line `new file mode` gives Added), and the block after the
\* next boundary is a DiffFile of its own.
BinaryKeepsMetadata ==
    pc = "done" =>
        /\ Len(files) = Cardinality(MarkerPositions(lines))
        /\ \A n \in 1..Len(files) :
              \A kb \in BlockBody(lines, n) : \A k \in BlockBody(lines, n) :
                  (/\ StartsWith(lines[kb], PfxBinaryFiles)
                   /\ kb < k
                   /\ ~BlockHas(lines, n, PfxHunk)) =>
                      /\ LastWith(lines, n, k, {PfxRenameTo})
                            => files[n].path = AfterRenameTo(lines[k])
                      /\ (/\ StartsWith(lines[k], PfxNewFileMode)
                          /\ LastWith(lines, n, k,
                                {PfxNewFileMode, PfxDeletedFileMode, PfxRenameFrom}))
                            => files[n].status = "Added"

-----------------------------------------------------------------------------
(* C18 *)

OldCounted(h) == SelectSeq(h.lines, LAMBDA dl : dl.line_type \in {"Deletion", "Context"})

NewCounted(h) == SelectSeq(h.lines, LAMBDA dl : dl.line_type \in {"Addition", "Context"})

\* C18: whatever u32 the starts of a hunk are, 4294967295 included, and
\* however many body lines follow, no counter increment fails or wraps: the
\* parser never stops on an overflow, each counter of the hunk in progress is
\* its start plus the number of lines counted so far, and every line number
\* assigned is the start plus the number of counted lines before it.
CountersNeverOverflow ==
    /\ pc # "panicked"
    /\ pc = "hunk" =>
          /\ hunk.old_line = PlainAdd(hunk.old_start, Len(OldCounted(hunk)))
          /\ hunk.new_line = PlainAdd(hunk.new_start, Len(NewCounted(hunk)))
    /\ \A h \in HunksSoFar :
          /\ \A k \in 1..Len(OldCounted(h)) :
                OldCounted(h)[k].old_line_no = Some(PlainAdd(h.old_start, k - 1))
          /\ \A k \in 1..Len(NewCounted(h)) :
                NewCounted(h)[k].new_line_no = Some(PlainAdd(h.new_start, k - 1))

-----------------------------------------------------------------------------
(* C19 *)

\* C19: a step of the hunk body that does not stop on an overflow consumes
\* one line and classifies it by its first character alone: `+`, `-` or a
\* space appends one DiffLine of type Addition, Deletion or Context whose
\* content is the line without that character, `+++ ...` and `--- ...`
\* included; any other line, the empty one included, appends nothing and
\* leaves both counters as they are.  In InFileMetadata a `--- ` or `+++ `
\* line is consumed without effect.
BodyLineClassifiedByFirstChar ==
    [][/\ (pc = "hunk" /\ ~HunkLoopEnds(lines, Cur) /\ pc' # "panicked") =>
             LET l == lines[i + 1]
             IN  /\ i' = i + 1
                 /\ pc' = "hunk"
                 /\ IF IsBodyLine(l)
                    THEN /\ Len(hunk'.lines) = Len(hunk.lines) + 1
                         /\ SubSeq(hunk'.lines, 1, Len(hunk.lines)) = hunk.lines
                         /\ hunk'.lines[Len(hunk'.lines)].line_type = TypeOfPrefix(l[1])
                         /\ hunk'.lines[Len(hunk'.lines)].content = Tail(l)
                    ELSE hunk' = hunk
       /\ (/\ pc = "meta"
           /\ MetaLoopContinues(lines, Cur)
           /\ lines[i + 1] \in {LnOldFile, LnNewFileName}) =>
             /\ i' = i + 1
             /\ pc' = "meta"
             /\ UNCHANGED <<files, file, hunk>>]_vars

\* a hunk body of `+++ b/y`, an empty line and `--- a/x` was consumed: an
\* Addition `++ b/y` and a Deletion `-- a/x`
BodyLineClassifiedByFirstCharWitness ==
    /\ lines = <<LnDiffXY, LnHunk, LnNewFileName, LnEmpty, LnOldFile>>
    /\ pc = "done"
    /\ Len(files) = 1
    /\ Len(files[1].hunks) = 1
    /\ RecordedLinesOf(files[1].hunks[1])
          = << <<"Addition", Tail(LnNewFileName)>>, <<"Deletion", Tail(LnOldFile)>> >>

-----------------------------------------------------------------------------
(* C20 *)

\* the metadata shapes that have an effect in InFileMetadata
IsMetadataShaped(l) ==
    \E p \in {PfxNewFileMode, PfxDeletedFileMode, PfxRenameFrom, PfxRenameTo,
              PfxBinaryFiles} : StartsWith(l, p)

\* C20: a step of the hunk body changes neither the DiffFile in progress
\* (status, path, old_path, recorded hunks) nor the files already pushed; a
\* line shaped like `new file mode`, `deleted file mode`, `rename from X`,
\* `rename to Y` or `Binary files ...` is consumed there with no effect at
\* all.
HunkBodyLeavesFileAlone ==
    [][(pc = "hunk" /\ ~HunkLoopEnds(lines, Cur)) =>
          /\ file' = file
          /\ files' = files
          /\ IsMetadataShaped(lines[i + 1]) =>
                (hunk' = hunk /\ i' = i + 1 /\ pc' = "hunk")]_vars

\* `new file mode` and `rename to z` came after a hunk header: the file is
\* returned Modified, with the path of its boundary line and its one hunk
HunkBodyLeavesFileAloneWitness ==
    /\ lines = <<LnDiffXY, LnHunk, LnNewFile, LnRenameTo>>
    /\ pc = "done"
    /\ Len(files) = 1
    /\ files[1].status = "Modified"
    /\ files[1].path = <<"y">>
    /\ files[1].old_path = None
    /\ Len(files[1].hunks) = 1

-----------------------------------------------------------------------------
(* C21 *)

IsErr(o) == IsSome(o) /\ o[1][1] = "Err"

IsOk(o) == IsSome(o) /\ o[1][1] = "Ok"

\* whether get_diff can take a step: it has not returned and, while the
\* parser runs, the parser has not stopped on a panic
GetDiffStepEnabled ==
    IF cmd.pc = "local" THEN git.pc \in {"first", "fallback", "returned"}
    ELSE IF cmd.pc = "parse" THEN pc \in {"scan", "meta", "hunk", "done"}
    ELSE cmd.pc = "start"

\* the statement of C21, with or without its last part, that a text from
\* the source always leads to Ok with the parser's result
GetDiffOutcome(parserNeverFails) ==
    /\ IsSome(cmd.remote) =>
          /\ cmd.called \in {<<>>, <<"run_remote_git_diff">>}
          /\ git = NoGit
    /\ cmd.remote = None =>
          /\ cmd.called \in {<<>>, <<"find_repo_root">>,
                             <<"find_repo_root", "run_git_diff">>}
          /\ git # NoGit =>
                /\ cmd.called = <<"find_repo_root", "run_git_diff">>
                /\ git.range = cmd.range
                /\ (cmd.range = None /\ Len(git.invoked) >= 1) =>
                      git.invoked[1].args = <<"diff", "HEAD">>
          /\ (git.pc = "returned" /\ cmd.pc # "local") => cmd.source = git.result
    /\ cmd.pc # "start" => Len(cmd.called) >= 1
    /\ IsErr(cmd.source) =>
          /\ cmd.pc = "returned"
          /\ cmd.result = cmd.source
          /\ pc = "idle"
          /\ lines = <<>>
    /\ (cmd.pc = "returned" /\ IsErr(cmd.result)) => IsErr(cmd.source)
    /\ IsOk(cmd.source) =>
          /\ cmd.pc \in {"parse", "returned"}
          /\ lines = Lines(cmd.source[1][2])
          /\ cmd.pc = "returned" =>
                /\ pc = "done"
                /\ cmd.result =
                      Some(Ok(parse_unified_diff(lines, overflow_checks).files))
          /\ parserNeverFails => (cmd.pc = "returned" \/ GetDiffStepEnabled)
    /\ ~IsOk(cmd.source) => (cmd.pc = "returned" \/ GetDiffStepEnabled)

\* C21: get_diff calls one diff source, the remote one when a remote is
\* given, else find_repo_root and then run_git_diff (`git diff HEAD` first
\* when there is no range either); it returns the Err of that step as it is,
\* without calling the parser, and in no other case an Err; when the step
\* gives a text, get_diff goes on to return Ok with what parse_unified_diff
\* makes of the text.
GetDiffErrOnlyFromSource == GetDiffOutcome(TRUE)

\* the same, but for a parser that stops on a counter overflow
GetDiffErrOnlyFromSourceUnlessPanic == GetDiffOutcome(FALSE)

\* get_diff returned Ok with one file of one hunk, parsed from the text of the
\* local diff
GetDiffReturnsParsedLocalDiff ==
    /\ cmd.pc = "returned"
    /\ cmd.remote = None
    /\ IsOk(cmd.result)
    /\ Len(cmd.result[1][2]) = 1
    /\ Len(cmd.result[1][2][1].hunks) = 1

====
